---- MODULE Spec2Model ----
(***************************************************************************)
(* LegalWiz CLM backend: the relational store of clause selections, the    *)
(* clause knowledge graph, the Graph RAG routes (recommendations,          *)
(* customization, risk analysis, chat) with their grounding validation,    *)
(* and JWT authentication.  Each route handler is one action; the HTTP     *)
(* response of the last request is held in resp.                           *)
(***************************************************************************)
EXTENDS Integers, Sequences, FiniteSets, TLC

VARIABLES
    contract_clauses,   \* committed rows of table contract_clauses
    next_clause_id,     \* next value of the SERIAL column contract_clauses.id
    chat_history,       \* committed rows of table contract_chat_history (in insertion order)
    users,              \* committed rows of table users
    llm_configured,     \* LLMClient.is_configured(): LLM_API_KEY is set
    auth_required,      \* AUTH_REQUIRED environment flag
    contract_versions,  \* committed rows of table contract_versions (in insertion order)
    snapshot_calls,     \* the create_version_snapshot calls in progress, one per worker
    resp                \* the response of the last request

vars == <<contract_clauses, next_clause_id, chat_history, users,
          llm_configured, auth_required, contract_versions, snapshot_calls, resp>>

----------------------------------------------------------------------------
(* Bounds of the model *)

\* largest value the SERIAL id of contract_clauses may take
MaxSerial == 6
\* longest list an LLM response may carry (recommendations, clause_risks, citations)
MaxLlmList == 2
\* most fragments an LLM-written clause text is made of
MaxFrags == 2
\* most rows kept in contract_chat_history
MaxChat == 4
\* most rows kept in contract_versions
MaxVersions == 3
\* longest list of ids given to validate_clause_ids
MaxIds == 4

NULL == "NULL"

----------------------------------------------------------------------------
(* Text: a string is a sequence of one-character strings *)

PH_A == <<"{", "{", "A", "}", "}">>
PH_B == <<"{", "{", "B", "_", "1", "}", "}">>

\* the characters of the class [A-Z_0-9] that occur in the model's texts
PlaceholderChars == {"A", "B", "_", "1"}

\* code points, for the order of sorted()
Ord(c) ==
    CASE c = " " -> 32
      [] c = "1" -> 49
      [] c = "A" -> 65
      [] c = "B" -> 66
      [] c = "_" -> 95
      [] c = "a" -> 97
      [] c = "x" -> 120
      [] c = "{" -> 123
      [] c = "}" -> 125

\* string comparison a < b of Python: by code point, a proper prefix first
RECURSIVE StrLess(_, _)
StrLess(a, b) ==
    IF b = <<>> THEN FALSE
    ELSE IF a = <<>> THEN TRUE
    ELSE IF Ord(Head(a)) # Ord(Head(b)) THEN Ord(Head(a)) < Ord(Head(b))
    ELSE StrLess(Tail(a), Tail(b))

\* sorted(list(S)) for a set S of strings
RECURSIVE Sorted(_)
Sorted(S) ==
    IF S = {} THEN <<>>
    ELSE LET m == CHOOSE x \in S : \A y \in S \ {x} : StrLess(x, y)
         IN  <<m>> \o Sorted(S \ {m})

\* the length of the longest run of [A-Z_0-9] characters of t that starts at i
RECURSIVE ClassRun(_, _)
ClassRun(t, i) ==
    IF i <= Len(t) /\ t[i] \in PlaceholderChars THEN 1 + ClassRun(t, i + 1) ELSE 0

\* re.match of \{\{[A-Z_0-9]+\}\} at position i of t: the position after the
\* match, or 0 when there is none ("+" is greedy, and no shorter run can be
\* followed by "}" since "}" is not in the class)
MatchAt(t, i) ==
    IF i + 1 <= Len(t) /\ t[i] = "{" /\ t[i + 1] = "{"
    THEN LET n == ClassRun(t, i + 2)
             e == i + 2 + n
         IN  IF n >= 1 /\ e + 1 <= Len(t) /\ t[e] = "}" /\ t[e + 1] = "}"
             THEN e + 2 ELSE 0
    ELSE 0

\* re.findall(r'\{\{[A-Z_0-9]+\}\}', t) scanning from position i: the matches
\* from left to right, the scan resuming after each match
RECURSIVE FindAllFrom(_, _)
FindAllFrom(t, i) ==
    IF i > Len(t) THEN <<>>
    ELSE LET e == MatchAt(t, i)
         IN  IF e = 0 THEN FindAllFrom(t, i + 1)
             ELSE <<SubSeq(t, i, e - 1)>> \o FindAllFrom(t, e)

FindAll(t) == FindAllFrom(t, 1)

----------------------------------------------------------------------------
(* The knowledge graph (Neo4j): static data of the clause library *)

\* (:Clause) nodes
GraphClauses == {
    [id |-> "CONF_STD", clause_type |-> "conf", variant |-> "Standard",
     jurisdiction |-> "India", risk_level |-> 3, raw_text |-> PH_A \o <<"x">>],
    [id |-> "CONF_MOD", clause_type |-> "conf", variant |-> "Moderate",
     jurisdiction |-> "India", risk_level |-> 5, raw_text |-> PH_A \o <<" ">> \o PH_B],
    [id |-> "TERM_MOD", clause_type |-> "term", variant |-> "Moderate",
     jurisdiction |-> "India", risk_level |-> 6, raw_text |-> <<"x">>],
    [id |-> "TERM_STR", clause_type |-> "term", variant |-> "Strict",
     jurisdiction |-> "India", risk_level |-> 9, raw_text |-> PH_B],
    [id |-> "INDEM_STR", clause_type |-> "indem", variant |-> "Strict",
     jurisdiction |-> "USA", risk_level |-> 8, raw_text |-> PH_A],
    [id |-> "CONF_US", clause_type |-> "conf", variant |-> "Moderate",
     jurisdiction |-> "USA", risk_level |-> 4, raw_text |-> PH_A] }

GraphClauseIds == {c.id : c \in GraphClauses}

GraphClause(id) == CHOOSE c \in GraphClauses : c.id = id

\* (:ClauseType) nodes
GraphClauseTypes == {
    [id |-> "conf",  name |-> "Confidentiality", importance_level |-> "Critical"],
    [id |-> "term",  name |-> "Termination",     importance_level |-> "High"],
    [id |-> "indem", name |-> "Indemnity",       importance_level |-> "Medium"] }

GraphClauseType(id) == CHOOSE t \in GraphClauseTypes : t.id = id

\* (:ClauseType)-[:HAS_VARIANT]->(:Clause)
HasVariant == {<<c.clause_type, c.id>> : c \in GraphClauses}

\* (:ContractType)-[:CONTAINS_CLAUSE]->(:ClauseType)
ContainsClause == {
    [contract_type |-> "employment-nda", clause_type |-> "conf",  sequence |-> 1, mandatory |-> TRUE],
    [contract_type |-> "employment-nda", clause_type |-> "term",  sequence |-> 2, mandatory |-> TRUE],
    [contract_type |-> "employment-nda", clause_type |-> "indem", sequence |-> 3, mandatory |-> FALSE] }

\* the clause types in the order the graph returns them
TemplateOrder == <<"conf", "term", "indem">>

\* (:Clause)-[:ALTERNATIVE_TO]->(:Clause), in the order of
\* ORDER BY alt.recommendation_strength DESC
AlternativeTo == <<
    [from |-> "TERM_MOD", to |-> "TERM_STR", strength |-> "medium", reason |-> "r1"],
    [from |-> "CONF_MOD", to |-> "CONF_STD", strength |-> "high",   reason |-> "r2"],
    [from |-> "CONF_MOD", to |-> "CONF_US",  strength |-> "high",   reason |-> "r3"] >>

\* (:ClauseType)-[:REQUIRES]->(:ClauseType), in the order the graph returns them
Requires == <<
    [source |-> "term", required |-> "conf",  is_critical |-> TRUE,  reason |-> "r4"],
    [source |-> "conf", required |-> "indem", is_critical |-> FALSE, reason |-> "r5"] >>

\* (:Clause)-[:CONFLICTS_WITH]->(:Clause), in the order of ORDER BY conf.severity DESC
ConflictsWith == <<
    [a |-> "TERM_MOD", b |-> "CONF_MOD", severity |-> "medium", reason |-> "r6"],
    [a |-> "CONF_MOD", b |-> "TERM_STR", severity |-> "high",   reason |-> "r7"] >>

\* the rows of fetch_clauses_from_neo4j's query before its WHERE, in the order
\* of its ORDER BY rel.sequence, c.variant
GraphVariantOrder == <<"CONF_MOD", "CONF_US", "CONF_STD", "TERM_MOD", "TERM_STR", "INDEM_STR">>

----------------------------------------------------------------------------
(* The relational store (Postgres) *)

\* table contracts
Contracts == {
    [id |-> "c1", contract_type |-> "employment-nda", jurisdiction |-> "India"],
    [id |-> "c2", contract_type |-> "employment-nda", jurisdiction |-> "USA"] }

\* contract ids a request may name: the stored ones and one that is not stored
ContractIdInputs == {c.id : c \in Contracts} \cup {"c9"}

ContractExists(contract_id) == \E c \in Contracts : c.id = contract_id

ContractRow(contract_id) == CHOOSE c \in Contracts : c.id = contract_id

RowsOf(rows, contract_id) == {r \in rows : r.contract_id = contract_id}

Variants == {"Standard", "Moderate", "Strict"}

----------------------------------------------------------------------------
(* neo4j_routes.py *)

RECURSIVE SelectIds(_, _)
SelectIds(ids, keep) ==
    IF ids = <<>> THEN <<>>
    ELSE IF Head(ids) \in keep THEN <<Head(ids)>> \o SelectIds(Tail(ids), keep)
    ELSE SelectIds(Tail(ids), keep)

fetch_clauses_from_neo4j(contract_type, jurisdiction) ==
    LET matched == {c.id : c \in {g \in GraphClauses :
                        /\ g.jurisdiction = jurisdiction
                        /\ \E cc \in ContainsClause :
                              /\ cc.contract_type = contract_type
                              /\ <<cc.clause_type, g.id>> \in HasVariant}}
        ordered == SelectIds(GraphVariantOrder, matched)
        TypeOf(id) == CHOOSE cc \in ContainsClause :
                          /\ cc.contract_type = contract_type
                          /\ <<cc.clause_type, id>> \in HasVariant
    IN  [i \in 1..Len(ordered) |->
            [clause_id |-> ordered[i],
             clause_type |-> TypeOf(ordered[i]).clause_type,
             variant |-> GraphClause(ordered[i]).variant,
             sequence |-> TypeOf(ordered[i]).sequence,
             is_mandatory |-> TypeOf(ordered[i]).mandatory]]

\* a generate_clauses that stores every variant as active
GeneratedRows_AllActive(contract_id, neo4j_clauses, default_variant, first_id) ==
    [i \in 1..Len(neo4j_clauses) |->
        [id |-> first_id + i - 1,
         contract_id |-> contract_id,
         clause_id |-> neo4j_clauses[i].clause_id,
         clause_type |-> neo4j_clauses[i].clause_type,
         variant |-> neo4j_clauses[i].variant,
         sequence |-> neo4j_clauses[i].sequence,
         is_mandatory |-> neo4j_clauses[i].is_mandatory,
         is_customized |-> FALSE,
         is_active |-> TRUE,
         overridden_text |-> NULL]]

\* the rows generate_clauses inserts: every variant, active iff it is the default one
GeneratedRows(contract_id, neo4j_clauses, default_variant, first_id) ==
    [i \in 1..Len(neo4j_clauses) |->
        [id |-> first_id + i - 1,
         contract_id |-> contract_id,
         clause_id |-> neo4j_clauses[i].clause_id,
         clause_type |-> neo4j_clauses[i].clause_type,
         variant |-> neo4j_clauses[i].variant,
         sequence |-> neo4j_clauses[i].sequence,
         is_mandatory |-> neo4j_clauses[i].is_mandatory,
         is_customized |-> FALSE,
         is_active |-> (neo4j_clauses[i].variant = default_variant),
         overridden_text |-> NULL]]

Range(s) == {s[i] : i \in DOMAIN s}

generate_clauses(contract_id, default_variant) ==
    LET contract == ContractRow(contract_id)
        neo4j_clauses == fetch_clauses_from_neo4j(contract.contract_type, contract.jurisdiction)
        inserted == GeneratedRows(contract_id, neo4j_clauses, default_variant, next_clause_id)
    IN  /\ UNCHANGED <<chat_history, users, llm_configured, auth_required,
                   contract_versions, snapshot_calls>>
        /\ IF ~ContractExists(contract_id)
           THEN /\ resp' = [op |-> "generate_clauses", contract_id |-> contract_id, status |-> 404]
                /\ UNCHANGED <<contract_clauses, next_clause_id>>
           ELSE IF RowsOf(contract_clauses, contract_id) # {}
           THEN /\ resp' = [op |-> "generate_clauses", contract_id |-> contract_id, status |-> 400]
                /\ UNCHANGED <<contract_clauses, next_clause_id>>
           ELSE IF neo4j_clauses = <<>>
           THEN /\ resp' = [op |-> "generate_clauses", contract_id |-> contract_id, status |-> 404]
                /\ UNCHANGED <<contract_clauses, next_clause_id>>
           ELSE /\ next_clause_id + Len(neo4j_clauses) - 1 <= MaxSerial
                /\ contract_clauses' = contract_clauses \cup Range(inserted)
                /\ next_clause_id' = next_clause_id + Len(neo4j_clauses)
                /\ resp' = [op |-> "generate_clauses", contract_id |-> contract_id,
                            status |-> 200, default_variant |-> default_variant,
                            body |-> inserted]

\* the default_variant values a request may carry
DefaultVariantInputs == {"Moderate", "Strict"}

GenerateClauses ==
    \E contract_id \in ContractIdInputs, default_variant \in DefaultVariantInputs :
        generate_clauses(contract_id, default_variant)

\* a first UPDATE whose WHERE lacks the clause_type condition
DeactivateType_NoTypeFilter(rows, contract_id, clause_type) ==
    {IF r.contract_id = contract_id
     THEN [r EXCEPT !.is_active = FALSE] ELSE r : r \in rows}

\* the first UPDATE of switch_clause_variant
DeactivateType(rows, contract_id, clause_type) ==
    {IF r.contract_id = contract_id /\ r.clause_type = clause_type
     THEN [r EXCEPT !.is_active = FALSE] ELSE r : r \in rows}

\* the rows the second UPDATE of switch_clause_variant matches
SwitchTargets(rows, contract_id, clause_type, new_variant) ==
    {r \in rows : /\ r.contract_id = contract_id
                  /\ r.clause_type = clause_type
                  /\ r.variant = new_variant}

ActivateVariant(rows, contract_id, clause_type, new_variant) ==
    {IF r \in SwitchTargets(rows, contract_id, clause_type, new_variant)
     THEN [r EXCEPT !.is_active = TRUE] ELSE r : r \in rows}

switch_clause_variant(contract_id, clause_type, new_variant) ==
    LET deactivated == DeactivateType(contract_clauses, contract_id, clause_type)
        activated == ActivateVariant(deactivated, contract_id, clause_type, new_variant)
        returning == SwitchTargets(activated, contract_id, clause_type, new_variant)
    IN  /\ UNCHANGED <<next_clause_id, chat_history, users, llm_configured, auth_required,
                   contract_versions, snapshot_calls>>
        /\ IF returning = {}
           THEN \* HTTPException: the connection is closed without commit
                /\ contract_clauses' = contract_clauses
                /\ resp' = [op |-> "switch_clause_variant", contract_id |-> contract_id,
                            clause_type |-> clause_type, new_variant |-> new_variant,
                            status |-> 404]
           ELSE /\ contract_clauses' = activated
                /\ resp' = [op |-> "switch_clause_variant", contract_id |-> contract_id,
                            clause_type |-> clause_type, new_variant |-> new_variant,
                            status |-> 200, body |-> returning]

ClauseTypeInputs == {"conf", "term", "indem", "nocomp"}

SwitchClauseVariant ==
    \E contract_id \in ContractIdInputs, clause_type \in ClauseTypeInputs,
       new_variant \in Variants :
        switch_clause_variant(contract_id, clause_type, new_variant)

delete_all_clauses(contract_id) ==
    /\ contract_clauses' = contract_clauses \ RowsOf(contract_clauses, contract_id)
    /\ resp' = [op |-> "delete_all_clauses", contract_id |-> contract_id, status |-> 200,
                deleted_count |-> Cardinality(RowsOf(contract_clauses, contract_id))]
    /\ UNCHANGED <<next_clause_id, chat_history, users, llm_configured, auth_required,
                   contract_versions, snapshot_calls>>

DeleteAllClauses ==
    \E contract_id \in ContractIdInputs : delete_all_clauses(contract_id)

----------------------------------------------------------------------------
(* graph_rag_engine.py: GraphRAGRetriever and GroundingValidator *)

\* the clause_id values of get_active_clause_ids: the active rows of the contract
get_active_clause_ids(contract_id) ==
    {r.clause_id : r \in {a \in RowsOf(contract_clauses, contract_id) : a.is_active}}

\* contract_type.replace("_", "-")
Neo4jCtId(contract_type) ==
    CASE contract_type = "employment_nda" -> "employment-nda"
      [] OTHER -> contract_type

\* the clause types of the contract type that have a variant among the active clauses
ActiveClauseTypes(ct_id, active_ids) ==
    {cc.clause_type : cc \in {x \in ContainsClause :
        /\ x.contract_type = ct_id
        /\ \E id \in active_ids : <<x.clause_type, id>> \in HasVariant /\ id \in GraphClauseIds}}

\* collect(reqClause.id): the variants of a clause type in the jurisdiction
VariantsIn(clause_type, jurisdiction) ==
    {c.id : c \in {g \in GraphClauses :
        <<clause_type, g.id>> \in HasVariant /\ g.jurisdiction = jurisdiction}}

\* the REQUIRES rows whose required clause type has no active variant
MissingRequires(ct_id, jurisdiction, active_ids) ==
    SelectSeq(Requires, LAMBDA e :
        /\ e.source \in ActiveClauseTypes(ct_id, active_ids)
        /\ VariantsIn(e.required, jurisdiction) \cap active_ids = {})

get_recommendation_context(contract_type, jurisdiction, active_clause_ids) ==
    LET neo4j_ct_id == Neo4jCtId(contract_type)
        alternatives ==
            (LET src_rows == SelectSeq(AlternativeTo, LAMBDA e :
                        /\ e.from \in active_clause_ids
                        /\ e.from \in GraphClauseIds
                        /\ GraphClause(e.to).jurisdiction = jurisdiction
                        /\ e.to \notin active_clause_ids)
             IN  [ix \in DOMAIN src_rows |->
                    LET e == src_rows[ix]
                    IN  [current_clause_id |-> e.from,
                        clause_type |-> GraphClause(e.from).clause_type,
                        recommended_clause_id |-> e.to,
                        recommended_variant |-> GraphClause(e.to).variant,
                        reason |-> e.reason,
                        strength |-> e.strength]])
        requires ==
            (LET src_rows == MissingRequires(neo4j_ct_id, jurisdiction, active_clause_ids)
             IN  [ix \in DOMAIN src_rows |->
                    LET e == src_rows[ix]
                    IN  [source_clause_type |-> e.source,
                        required_clause_type |-> e.required,
                        is_critical |-> e.is_critical,
                        reason |-> e.reason]])
        optional_gaps ==
            {cc.clause_type : cc \in {x \in ContainsClause :
                /\ x.contract_type = neo4j_ct_id
                /\ ~x.mandatory
                /\ VariantsIn(x.clause_type, jurisdiction) \ active_clause_ids # {}}}
    IN  [alternatives |-> alternatives, requires |-> requires, optional_gaps |-> optional_gaps]

\* the clause_risks rows in the order of ORDER BY c.risk_level DESC
RECURSIVE ByRiskDesc(_)
ByRiskDesc(ids) ==
    IF ids = {} THEN <<>>
    ELSE LET top == CHOOSE x \in ids :
                        \A y \in ids : GraphClause(y).risk_level <= GraphClause(x).risk_level
         IN  <<top>> \o ByRiskDesc(ids \ {top})

\* ct.importance_level of the clause's type
ImportanceOf(clause_id) ==
    LET types == {h[1] : h \in {v \in HasVariant : v[2] = clause_id}}
    IN  GraphClauseType(CHOOSE t \in types : TRUE).importance_level

get_risk_context(contract_type, jurisdiction, active_clause_ids) ==
    LET neo4j_ct_id == Neo4jCtId(contract_type)
        clause_risks ==
            (LET src_rows == ByRiskDesc(active_clause_ids \cap GraphClauseIds)
             IN  [ix \in DOMAIN src_rows |->
                    LET id == src_rows[ix]
                    IN  [clause_id |-> id,
                 clause_type |-> GraphClause(id).clause_type,
                 variant |-> GraphClause(id).variant,
                 risk_level |-> GraphClause(id).risk_level,
                 importance_level |-> ImportanceOf(id)]])
        conflicts ==
            (LET src_rows == SelectSeq(ConflictsWith, LAMBDA e :
                        e.a \in active_clause_ids /\ e.b \in active_clause_ids)
             IN  [ix \in DOMAIN src_rows |->
                    LET e == src_rows[ix]
                    IN  [clause_a_id |-> e.a, clause_b_id |-> e.b,
                        severity |-> e.severity, reason |-> e.reason]])
        missing_dependencies ==
            (LET src_rows == MissingRequires(neo4j_ct_id, jurisdiction, active_clause_ids)
             IN  [ix \in DOMAIN src_rows |->
                    LET e == src_rows[ix]
                    IN  [source_type |-> e.source, missing_type |-> e.required,
                        is_critical |-> e.is_critical, reason |-> e.reason]])
        gaps ==
            (LET src_rows == SelectSeq(TemplateOrder, LAMBDA t :
                        \E x \in ContainsClause :
                            /\ x.clause_type = t
                            /\ x.contract_type = neo4j_ct_id
                            /\ x.mandatory
                            /\ VariantsIn(t, jurisdiction) \cap active_clause_ids = {})
             IN  [ix \in DOMAIN src_rows |->
                    LET t == src_rows[ix]
                    IN  [clause_type_id |-> t]])
    IN  [clause_risks |-> clause_risks, conflicts |-> conflicts,
         missing_dependencies |-> missing_dependencies, gaps |-> gaps]

\* verify_clause_ids_batch: one row per element of the list, folded into a dict
\* (the keys in the order of their first occurrence)
RECURSIVE DictKeys(_, _)
DictKeys(ids, seen) ==
    IF ids = <<>> THEN <<>>
    ELSE IF Head(ids) \in seen THEN DictKeys(Tail(ids), seen)
    ELSE <<Head(ids)>> \o DictKeys(Tail(ids), seen \cup {Head(ids)})

verify_clause_ids_batch(clause_ids) == DictKeys(clause_ids, {})

validate_clause_ids(clause_ids) ==
    IF clause_ids = <<>>
    THEN [valid |-> TRUE, invalid_ids |-> <<>>, valid_ids |-> <<>>]
    ELSE LET keys == verify_clause_ids_batch(clause_ids)
             invalid == SelectSeq(keys, LAMBDA cid : cid \notin GraphClauseIds)
             valid == SelectSeq(keys, LAMBDA cid : cid \in GraphClauseIds)
         IN  [valid |-> Len(invalid) = 0,
              invalid_ids |-> invalid,
              valid_ids |-> valid,
              total_checked |-> Len(clause_ids),
              validation_rate |-> <<Len(valid), Len(clause_ids)>>]

\* a validator that takes a recommendation for grounded when its clause type is any
\* clause type of the graph
validate_recommendations_AnyType(recommendations, graph_context) ==
    LET graph_alt_ids == {a.recommended_clause_id : a \in Range(graph_context.alternatives)}
        IsGrounded(rec) ==
            \/ rec.recommended_clause_id \in graph_alt_ids
            \/ rec.clause_type \in {t.id : t \in GraphClauseTypes}
        grounded_recs == SelectSeq(recommendations, IsGrounded)
        ungrounded_recs == SelectSeq(recommendations, LAMBDA rec : ~IsGrounded(rec))
    IN  [valid |-> Len(ungrounded_recs) = 0,
         id_validation |-> validate_clause_ids(<<>>),
         grounded_count |-> Len(grounded_recs),
         ungrounded_count |-> Len(ungrounded_recs),
         ungrounded_recommendations |-> ungrounded_recs,
         grounding_rate |-> IF recommendations # <<>>
                            THEN <<Len(grounded_recs), Len(recommendations)>> ELSE <<1, 1>>]

validate_recommendations(recommendations, graph_context) ==
    LET rec_clause_ids ==
            (LET src_rows == SelectSeq(recommendations, LAMBDA r : r.recommended_clause_id # NULL)
             IN  [ix \in DOMAIN src_rows |->
                    LET r == src_rows[ix]
                    IN  r.recommended_clause_id])
        id_validation == validate_clause_ids(rec_clause_ids)
        graph_alt_ids == {a.recommended_clause_id : a \in Range(graph_context.alternatives)}
        graph_req_types == {r.required_clause_type : r \in Range(graph_context.requires)}
        IsGrounded(rec) ==
            \/ rec.recommended_clause_id \in graph_alt_ids
            \/ rec.clause_type \in graph_req_types
        grounded_recs == SelectSeq(recommendations, IsGrounded)
        ungrounded_recs == SelectSeq(recommendations, LAMBDA rec : ~IsGrounded(rec))
    IN  [valid |-> id_validation.valid /\ Len(ungrounded_recs) = 0,
         id_validation |-> id_validation,
         grounded_count |-> Len(grounded_recs),
         ungrounded_count |-> Len(ungrounded_recs),
         ungrounded_recommendations |-> ungrounded_recs,
         grounding_rate |-> IF recommendations # <<>>
                            THEN <<Len(grounded_recs), Len(recommendations)>> ELSE <<1, 1>>]

\* the clause node with its clause type, or nothing when the clause is not a
\* variant of any clause type
get_customization_context_found(clause_id) ==
    \E c \in GraphClauses : c.id = clause_id /\ \E h \in HasVariant : h[2] = clause_id

get_customization_context(clause_id) == [clause |-> GraphClause(clause_id)]

\* a validator that compares only the number of placeholders
validate_placeholders_CountOnly(original_text, customized_text) ==
    LET original_placeholders == Range(FindAll(original_text))
        customized_placeholders == Range(FindAll(customized_text))
        missing == IF Cardinality(customized_placeholders) >= Cardinality(original_placeholders)
                   THEN {} ELSE original_placeholders \ customized_placeholders
    IN  [valid |-> missing = {},
         original_placeholders |-> Sorted(original_placeholders),
         preserved_placeholders |-> Sorted(original_placeholders \cap customized_placeholders),
         missing_placeholders |-> Sorted(missing),
         new_placeholders |-> Sorted(customized_placeholders \ original_placeholders)]

validate_placeholders(original_text, customized_text) ==
    LET original_placeholders == Range(FindAll(original_text))
        customized_placeholders == Range(FindAll(customized_text))
        missing == original_placeholders \ customized_placeholders
        added == customized_placeholders \ original_placeholders
    IN  [valid |-> Cardinality(missing) = 0,
         original_placeholders |-> Sorted(original_placeholders),
         preserved_placeholders |-> Sorted(original_placeholders \cap customized_placeholders),
         missing_placeholders |-> Sorted(missing),
         new_placeholders |-> Sorted(added)]

\* the clause rows of get_qa_context: the graph's clauses among the active ids, in
\* the order of ORDER BY c.clause_type
get_qa_context(contract_id, active_clause_ids) ==
    LET src_rows == SelectSeq(GraphVariantOrder, LAMBDA id : id \in active_clause_ids)
    IN  [clauses |->
            [ix \in DOMAIN src_rows |->
                LET c == GraphClause(src_rows[ix])
                IN  [clause_id |-> c.id, clause_type |-> c.clause_type,
                     variant |-> c.variant, risk_level |-> c.risk_level,
                     raw_text |-> c.raw_text]]]

\* a validator that accepts a citation of any clause of the graph
validate_citations_AnyGraphClause(citations, clause_data) ==
    LET valid_citations == SelectSeq(citations, LAMBDA c : c.clause_id \in GraphClauseIds)
        invalid_citations == SelectSeq(citations, LAMBDA c : c.clause_id \notin GraphClauseIds)
    IN  [valid |-> Len(invalid_citations) = 0,
         valid_citations |-> valid_citations,
         invalid_citations |-> invalid_citations,
         citation_rate |-> IF citations # <<>>
                           THEN <<Len(valid_citations), Len(citations)>> ELSE <<1, 1>>]

validate_citations(citations, clause_data) ==
    LET available_ids == {c.clause_id : c \in Range(clause_data)}
        valid_citations == SelectSeq(citations, LAMBDA c : c.clause_id \in available_ids)
        invalid_citations == SelectSeq(citations, LAMBDA c : c.clause_id \notin available_ids)
    IN  [valid |-> Len(invalid_citations) = 0,
         valid_citations |-> valid_citations,
         invalid_citations |-> invalid_citations,
         citation_rate |-> IF citations # <<>>
                           THEN <<Len(valid_citations), Len(citations)>> ELSE <<1, 1>>]

----------------------------------------------------------------------------
(* recommendation_routes.py *)

\* sequences over a set, of length at most n
SeqsUpTo(S, n) == UNION {[1..k -> S] : k \in 0..n}

\* what the LLM can answer to the recommendation prompt: an exception, or a JSON
\* object whose "recommendations" are any list (absent key: the empty list)
LlmRecs == {
    [recommended_clause_id |-> "TERM_STR",  clause_type |-> "nocomp"],
    [recommended_clause_id |-> "CONF_US",   clause_type |-> "nocomp"],
    [recommended_clause_id |-> "GHOST_001", clause_type |-> "nocomp"],
    [recommended_clause_id |-> "GHOST_001", clause_type |-> "indem"],
    [recommended_clause_id |-> NULL,        clause_type |-> "indem"] }

RecommendationLlmOutcomes ==
    {[kind |-> "error", recommendations |-> <<>>]}
    \cup {[kind |-> "json", recommendations |-> l] : l \in SeqsUpTo(LlmRecs, MaxLlmList)}

\* the raw_recs lists built from the alternatives only
RawRecommendations_AlternativesOnly(graph_context) ==
    (LET src_rows == graph_context.alternatives
     IN  [ix \in DOMAIN src_rows |->
            LET alt == src_rows[ix]
            IN  [type |-> "variant_upgrade",
         clause_type |-> alt.clause_type,
         current_clause_id |-> alt.current_clause_id,
         recommended_clause_id |-> alt.recommended_clause_id,
         reason |-> alt.reason,
         priority |-> IF alt.strength = "high" THEN "high" ELSE "medium",
         recommendation_strength |-> alt.strength]])

\* the raw_recs lists of the two branches without an LLM answer
RawRecommendations(graph_context) ==
    (LET src_rows == graph_context.alternatives
     IN  [ix \in DOMAIN src_rows |->
            LET alt == src_rows[ix]
            IN  [type |-> "variant_upgrade",
         clause_type |-> alt.clause_type,
         current_clause_id |-> alt.current_clause_id,
         recommended_clause_id |-> alt.recommended_clause_id,
         reason |-> alt.reason,
         priority |-> IF alt.strength = "high" THEN "high" ELSE "medium",
         recommendation_strength |-> alt.strength]])
    \o
    (LET src_rows == graph_context.requires
     IN  [ix \in DOMAIN src_rows |->
            LET req == src_rows[ix]
            IN  [type |-> "missing_clause",
         clause_type |-> req.required_clause_type,
         current_clause_id |-> NULL,
         recommended_clause_id |-> NULL,
         reason |-> req.reason,
         priority |-> IF req.is_critical THEN "high" ELSE "medium",
         recommendation_strength |-> IF req.is_critical THEN "high" ELSE "medium"]])

RecommendationResponse(contract_id, path, llm, recommendations, grounding_validation) ==
    [op |-> "get_recommendations", contract_id |-> contract_id, status |-> 200,
     path |-> path, llm |-> llm,
     recommendations |-> recommendations,
     total_recommendations |-> Len(recommendations),
     grounding_validation |-> grounding_validation]

\* lines 246-269: the answer of the LLM, validated and filtered
get_recommendations_llm(contract_id, graph_context, llm_response) ==
    LET recommendations == llm_response.recommendations
        grounding == validate_recommendations(recommendations, graph_context)
        filtered ==
            IF ~grounding.valid
            THEN SelectSeq(recommendations,
                           LAMBDA r : r \notin Range(grounding.ungrounded_recommendations))
            ELSE recommendations
    IN  RecommendationResponse(contract_id, "llm", llm_response, filtered,
            [valid |-> grounding.valid,
             grounding_rate |-> grounding.grounding_rate,
             filtered_hallucinations |-> grounding.ungrounded_count,
             llm_fallback |-> FALSE])

get_recommendations(contract_id) ==
    LET NotCalled == [kind |-> "not called", recommendations |-> <<>>]
        Failure(code) ==
            [op |-> "get_recommendations", contract_id |-> contract_id, status |-> code,
             llm |-> NotCalled]
        Ungated == [valid |-> TRUE, grounding_rate |-> <<1, 1>>,
                    filtered_hallucinations |-> 0, llm_fallback |-> FALSE]
    IN
    /\ UNCHANGED <<contract_clauses, next_clause_id, chat_history, users,
                   llm_configured, auth_required,
                   contract_versions, snapshot_calls>>
    /\ IF ~ContractExists(contract_id)
       THEN resp' = Failure(404)
       ELSE LET contract == ContractRow(contract_id)
                active_clause_ids == get_active_clause_ids(contract_id)
                graph_context ==
                    get_recommendation_context(contract.contract_type,
                                               contract.jurisdiction, active_clause_ids)
            IN  IF active_clause_ids = {}
                THEN resp' = Failure(400)
                ELSE IF /\ graph_context.alternatives = <<>>
                        /\ graph_context.requires = <<>>
                        /\ graph_context.optional_gaps = {}
                THEN resp' = RecommendationResponse(contract_id, "empty", NotCalled,
                                                    <<>>, Ungated)
                ELSE IF ~llm_configured
                THEN resp' = RecommendationResponse(contract_id, "not_configured", NotCalled,
                                 RawRecommendations(graph_context), Ungated)
                ELSE \E llm \in RecommendationLlmOutcomes :
                        IF llm.kind = "error"
                        THEN resp' = RecommendationResponse(contract_id, "llm_fallback", llm,
                                         RawRecommendations(graph_context),
                                         [Ungated EXCEPT !.llm_fallback = TRUE])
                        ELSE resp' = get_recommendations_llm(contract_id, graph_context, llm)

GetRecommendations == \E contract_id \in ContractIdInputs : get_recommendations(contract_id)

----------------------------------------------------------------------------
(* risk_routes.py; scores are carried in tenths: 57 is the score 5.7 *)

\* importance_weights, in tenths
ImportanceWeight(importance) ==
    CASE importance = "Critical" -> 30
      [] importance = "High" -> 20
      [] importance = "Medium" -> 15
      [] importance = "Low" -> 10
      [] OTHER -> 10

\* severity_penalty, in tenths
SeverityPenalty(severity) ==
    CASE severity = "high" -> 5
      [] severity = "medium" -> 3
      [] severity = "low" -> 1
      [] OTHER -> 1

RECURSIVE SumSeq(_)
SumSeq(seq) == IF seq = <<>> THEN 0 ELSE Head(seq) + SumSeq(Tail(seq))

\* round(n / d) to the nearest integer, halves to the even one
RoundDiv(n, d) ==
    LET q == n \div d
        r == n % d
    IN  IF 2 * r < d THEN q
        ELSE IF 2 * r > d THEN q + 1
        ELSE IF q % 2 = 0 THEN q ELSE q + 1

Min(a, b) == IF a <= b THEN a ELSE b

_compute_risk_score(clause_risks, conflicts) ==
    IF clause_risks = <<>> THEN 0
    ELSE LET total_weight ==
                 SumSeq((LET src_rows == clause_risks
                         IN  [ix \in DOMAIN src_rows |->
                                LET cr == src_rows[ix]
                                IN  ImportanceWeight(cr.importance_level)]))
             weighted_sum ==
                 SumSeq((LET src_rows == clause_risks
                         IN  [ix \in DOMAIN src_rows |->
                                LET cr == src_rows[ix]
                                IN  cr.risk_level * ImportanceWeight(cr.importance_level)]))
             conflict_penalty ==
                 SumSeq((LET src_rows == conflicts
                         IN  [ix \in DOMAIN src_rows |->
                                LET c == src_rows[ix]
                                IN  SeverityPenalty(c.severity)]))
         IN  Min(100, RoundDiv(10 * weighted_sum + conflict_penalty * total_weight,
                               total_weight))

_get_risk_label(score) ==
    IF score <= 35 THEN "Low"
    ELSE IF score <= 55 THEN "Medium"
    ELSE IF score <= 75 THEN "High"
    ELSE "Critical"

get_quick_risk(contract_id) ==
    /\ UNCHANGED <<contract_clauses, next_clause_id, chat_history, users,
                   llm_configured, auth_required,
                   contract_versions, snapshot_calls>>
    /\ IF ~ContractExists(contract_id)
       THEN resp' = [op |-> "get_quick_risk", contract_id |-> contract_id, status |-> 404]
       ELSE LET contract == ContractRow(contract_id)
                active_clause_ids == get_active_clause_ids(contract_id)
                risk_ctx == get_risk_context(contract.contract_type, contract.jurisdiction,
                                             active_clause_ids)
                risk_score == _compute_risk_score(risk_ctx.clause_risks, risk_ctx.conflicts)
            IN  IF active_clause_ids = {}
                THEN resp' = [op |-> "get_quick_risk", contract_id |-> contract_id,
                              status |-> 400]
                ELSE resp' =
                        [op |-> "get_quick_risk", contract_id |-> contract_id, status |-> 200,
                         overall_risk_score |-> risk_score,
                         overall_risk_label |-> _get_risk_label(risk_score),
                         total_clauses |-> Cardinality(active_clause_ids),
                         conflict_count |-> Len(risk_ctx.conflicts),
                         gap_count |-> Len(risk_ctx.gaps) + Len(risk_ctx.missing_dependencies),
                         high_risk_clauses |->
                             (LET src_rows == SelectSeq(risk_ctx.clause_risks,
                                              LAMBDA r : r.risk_level >= 7)
                              IN  [ix \in DOMAIN src_rows |->
                                     LET r == src_rows[ix]
                                     IN  [clause_id |-> r.clause_id,
                                                clause_type |-> r.clause_type,
                                                risk_level |-> r.risk_level]])]

GetQuickRisk == \E contract_id \in ContractIdInputs : get_quick_risk(contract_id)

_build_raw_risk_response(contract_id, risk_score, risk_label, risk_ctx) ==
    [op |-> "get_risk_analysis", contract_id |-> contract_id, status |-> 200,
     overall_risk_score |-> risk_score,
     overall_risk_label |-> risk_label,
     clause_risks |->
         (LET src_rows == risk_ctx.clause_risks
          IN  [ix \in DOMAIN src_rows |->
                 LET r == src_rows[ix]
                 IN  [clause_id |-> r.clause_id, clause_type |-> r.clause_type,
              risk_level |-> r.risk_level]]),
     conflicts |->
         (LET src_rows == risk_ctx.conflicts
          IN  [ix \in DOMAIN src_rows |->
                 LET c == src_rows[ix]
                 IN  [clause_a |-> c.clause_a_id, clause_b |-> c.clause_b_id,
              severity |-> c.severity, description |-> c.reason]]),
     gaps |->
         (LET src_rows == risk_ctx.missing_dependencies
          IN  [ix \in DOMAIN src_rows |->
                 LET g == src_rows[ix]
                 IN  [missing_clause_type |-> g.missing_type, reason |-> g.reason,
              is_critical |-> g.is_critical]])
         \o
         (LET src_rows == risk_ctx.gaps
          IN  [ix \in DOMAIN src_rows |->
                 LET g == src_rows[ix]
                 IN  [missing_clause_type |-> g.clause_type_id, reason |-> "mandatory",
              is_critical |-> TRUE]]),
     validation |-> [risk_scores_from_graph |-> TRUE, llm_used |-> FALSE,
                     scores_corrected |-> 0]]

validate_risk_scores(llm_risks, graph_risks) ==
    LET graph_ids == {r.clause_id : r \in Range(graph_risks)}
        graph_risk_map == [cid \in graph_ids |->
                              (CHOOSE r \in Range(graph_risks) : r.clause_id = cid).risk_level]
        mismatches ==
            SelectSeq(llm_risks, LAMBDA llm_risk :
                /\ llm_risk.clause_id \in graph_ids
                /\ llm_risk.risk_level # graph_risk_map[llm_risk.clause_id])
    IN  [valid |-> Len(mismatches) = 0,
         mismatches |-> mismatches,
         checked_count |-> Len(llm_risks),
         accuracy_rate |-> IF llm_risks # <<>>
                           THEN <<Len(llm_risks) - Len(mismatches), Len(llm_risks)>>
                           ELSE <<1, 1>>]

\* what the LLM can answer to the risk prompt: an exception, or a JSON object with
\* its own clause_risks list and its own overall score and label
LlmRiskClauseIds == {"TERM_STR", "GHOST_001"}

LlmRiskLevels == {1, 9}

LlmRisks == [clause_id : LlmRiskClauseIds, risk_level : LlmRiskLevels]

LlmOverall == {[score |-> 12, label |-> "Low"]}

RiskLlmOutcomes ==
    {[kind |-> "error", clause_risks |-> <<>>,
      overall_risk_score |-> 0, overall_risk_label |-> "Low"]}
    \cup {[kind |-> "json", clause_risks |-> l,
           overall_risk_score |-> o.score, overall_risk_label |-> o.label] :
              l \in SeqsUpTo(LlmRisks, MaxLlmList), o \in LlmOverall}

\* a handler that lets the overall score and label of the LLM through
get_risk_analysis_llm_LlmScore(contract_id, risk_score, risk_label, risk_ctx, llm_response) ==
    [op |-> "get_risk_analysis", contract_id |-> contract_id, status |-> 200,
     overall_risk_score |-> llm_response.overall_risk_score,
     overall_risk_label |-> llm_response.overall_risk_label,
     clause_risks |-> llm_response.clause_risks,
     conflicts |-> <<>>,
     gaps |-> <<>>,
     validation |-> [risk_scores_from_graph |-> TRUE, llm_used |-> TRUE,
                     scores_corrected |-> 0]]

\* lines 293-324: the answer of the LLM with the graph's levels forced on the entries
\* whose clause_id the graph context has
get_risk_analysis_llm(contract_id, risk_score, risk_label, risk_ctx, llm_response) ==
    LET llm_clause_risks == llm_response.clause_risks
        risk_validation == validate_risk_scores(llm_clause_risks, risk_ctx.clause_risks)
        graph_ids == {r.clause_id : r \in Range(risk_ctx.clause_risks)}
        graph_risk_map == [cid \in graph_ids |->
            (CHOOSE r \in Range(risk_ctx.clause_risks) : r.clause_id = cid).risk_level]
        corrected ==
            (LET src_rows == llm_clause_risks
             IN  [ix \in DOMAIN src_rows |->
                    LET llm_risk == src_rows[ix]
                    IN  IF llm_risk.clause_id \in graph_ids
                THEN [llm_risk EXCEPT !.risk_level = graph_risk_map[llm_risk.clause_id]]
                ELSE llm_risk])
    IN  [op |-> "get_risk_analysis", contract_id |-> contract_id, status |-> 200,
         overall_risk_score |-> risk_score,
         overall_risk_label |-> risk_label,
         clause_risks |-> corrected,
         conflicts |-> <<>>,
         gaps |-> <<>>,
         validation |-> [risk_scores_from_graph |-> TRUE, llm_used |-> TRUE,
                         scores_corrected |-> Len(risk_validation.mismatches)]]

get_risk_analysis(contract_id) ==
    /\ UNCHANGED <<contract_clauses, next_clause_id, chat_history, users,
                   llm_configured, auth_required,
                   contract_versions, snapshot_calls>>
    /\ IF ~ContractExists(contract_id)
       THEN resp' = [op |-> "get_risk_analysis", contract_id |-> contract_id, status |-> 404,
                     llm |-> [kind |-> "not called"]]
       ELSE LET contract == ContractRow(contract_id)
                active_clause_ids == get_active_clause_ids(contract_id)
                risk_ctx == get_risk_context(contract.contract_type, contract.jurisdiction,
                                             active_clause_ids)
                risk_score == _compute_risk_score(risk_ctx.clause_risks, risk_ctx.conflicts)
                risk_label == _get_risk_label(risk_score)
                raw == _build_raw_risk_response(contract_id, risk_score, risk_label, risk_ctx)
            IN  IF active_clause_ids = {}
                THEN resp' = [op |-> "get_risk_analysis", contract_id |-> contract_id,
                              status |-> 400, llm |-> [kind |-> "not called"]]
                ELSE IF ~llm_configured
                THEN resp' = [llm |-> [kind |-> "not called"]] @@ raw
                ELSE \E llm \in RiskLlmOutcomes :
                        IF llm.kind = "error"
                        THEN resp' = [llm |-> [kind |-> "error"]] @@ raw
                        ELSE resp' = [llm |-> [kind |-> "json"]] @@
                                get_risk_analysis_llm(contract_id, risk_score, risk_label,
                                                      risk_ctx, llm)

GetRiskAnalysis == \E contract_id \in ContractIdInputs : get_risk_analysis(contract_id)

----------------------------------------------------------------------------
(* chatbot_routes.py *)

\* what the LLM can answer to the chat prompt: an exception, or a JSON object with
\* any list of citations; "complete" tells whether the citation has the clause_type
\* and relevant_snippet strings the response model Citation asks for
LlmCitations == {
    [clause_id |-> "CONF_MOD",  complete |-> TRUE],
    [clause_id |-> "CONF_MOD",  complete |-> FALSE],
    [clause_id |-> "TERM_STR",  complete |-> TRUE],
    [clause_id |-> "GHOST_001", complete |-> TRUE],
    [clause_id |-> NULL,        complete |-> TRUE] }

ChatLlmOutcomes ==
    {[kind |-> "error", citations |-> <<>>]}
    \cup {[kind |-> "json", citations |-> l] : l \in SeqsUpTo(LlmCitations, MaxLlmList)}

\* the table contract_chat_history after _save_message
_save_message(history, contract_id, role, citations) ==
    Append(history, [contract_id |-> contract_id, role |-> role, citations |-> citations])

\* lines 228-255: the answer of the LLM validated, saved and returned; FastAPI
\* refuses (500) a response whose citations do not fit the response model
chat_llm(contract_id, qa_context, saved, llm_response) ==
    LET citations == llm_response.citations
        citation_check == validate_citations(citations, qa_context.clauses)
        valid_citations == citation_check.valid_citations
    IN  /\ chat_history' = _save_message(saved, contract_id, "assistant", valid_citations)
        /\ IF \A i \in DOMAIN valid_citations : valid_citations[i].complete
           THEN resp' = [op |-> "chat", contract_id |-> contract_id, status |-> 200,
                         llm |-> llm_response,
                         citations |-> valid_citations,
                         grounding_validation |->
                             [citations_valid |-> citation_check.valid,
                              citation_rate |-> citation_check.citation_rate,
                              invalid_citations_filtered |->
                                  Len(citation_check.invalid_citations)]]
           ELSE resp' = [op |-> "chat", contract_id |-> contract_id, status |-> 500,
                         llm |-> llm_response]

chat(contract_id) ==
    LET Failure(code) ==
            [op |-> "chat", contract_id |-> contract_id, status |-> code,
             llm |-> [kind |-> "not called", citations |-> <<>>]]
        active_clause_ids == get_active_clause_ids(contract_id)
    IN
    /\ UNCHANGED <<contract_clauses, next_clause_id, users, llm_configured, auth_required,
                   contract_versions, snapshot_calls>>
    /\ IF ~ContractExists(contract_id)
       THEN resp' = Failure(404) /\ UNCHANGED chat_history
       ELSE IF ~llm_configured
       THEN resp' = Failure(503) /\ UNCHANGED chat_history
       ELSE IF active_clause_ids = {}
       THEN resp' = Failure(400) /\ UNCHANGED chat_history
       ELSE LET qa_context == get_qa_context(contract_id, active_clause_ids)
                saved == _save_message(chat_history, contract_id, "user", <<>>)
            IN  /\ Len(chat_history) + 2 <= MaxChat
                /\ \E llm \in ChatLlmOutcomes :
                       IF llm.kind = "error"
                       THEN /\ chat_history' = saved
                            /\ resp' = [op |-> "chat", contract_id |-> contract_id,
                                         status |-> 500, llm |-> llm]
                       ELSE chat_llm(contract_id, qa_context, saved, llm)

Chat == \E contract_id \in ContractIdInputs : chat(contract_id)

clear_chat_history(contract_id) ==
    /\ chat_history' = SelectSeq(chat_history, LAMBDA msg : msg.contract_id # contract_id)
    /\ resp' = [op |-> "clear_chat_history", contract_id |-> contract_id, status |-> 200,
                 deleted |-> Len(chat_history) - Len(chat_history')]
    /\ UNCHANGED <<contract_clauses, next_clause_id, users, llm_configured, auth_required,
                   contract_versions, snapshot_calls>>

ClearChatHistory == \E contract_id \in ContractIdInputs : clear_chat_history(contract_id)

----------------------------------------------------------------------------
(* auth_middleware.py and auth_routes.py *)

\* the rows of table users are [id, email, is_active]; a JWT is the record of what
\* jwt.decode sees: whether the signature verifies with SECRET_KEY, whether exp
\* has passed, and the claims "type" and "sub" (NULL: the claim is absent)
EmailInputs == {"a@x", "b@x"}

UserIds == <<"u1", "u2">>

TokenTypes == {"access", "refresh", "other", NULL}

TokenSubs == {"u1", "u2", "u9", NULL}

Tokens ==
    [present : {TRUE}, signed : BOOLEAN, expired : BOOLEAN, type : TokenTypes, sub : TokenSubs]

\* no Authorization header (credentials is None)
NoCredentials ==
    [present |-> FALSE, signed |-> FALSE, expired |-> FALSE, type |-> NULL, sub |-> NULL]

\* the Authorization header: absent, or a bearer token
CredentialInputs == {NoCredentials} \cup Tokens

create_access_token(data) ==
    [present |-> TRUE, signed |-> TRUE, expired |-> FALSE, type |-> "access", sub |-> data.sub]

create_refresh_token(data) ==
    [present |-> TRUE, signed |-> TRUE, expired |-> FALSE, type |-> "refresh", sub |-> data.sub]

\* decode_token: the payload, or the 401 of a JWTError
decode_token(token) ==
    IF token.signed /\ ~token.expired
    THEN [ok |-> TRUE, type |-> token.type, sub |-> token.sub]
    ELSE [ok |-> FALSE, type |-> NULL, sub |-> NULL]

UserById(user_id) ==
    IF \E u \in users : u.id = user_id
    THEN {CHOOSE u \in users : u.id = user_id}
    ELSE {}

TokenResponse(op, token, code, user) ==
    [op |-> op, token |-> token, status |-> code,
     tokens |-> <<create_access_token([sub |-> user.id]),
                  create_refresh_token([sub |-> user.id])>>,
     user |-> user.id]

AuthFailure(op, token, code) ==
    [op |-> op, token |-> token, status |-> code, tokens |-> <<>>, user |-> NULL]

register(email) ==
    /\ UNCHANGED <<contract_clauses, next_clause_id, chat_history, llm_configured,
                   auth_required,
                   contract_versions, snapshot_calls>>
    /\ IF \E u \in users : u.email = email
       THEN /\ resp' = AuthFailure("register", NoCredentials, 409)
            /\ UNCHANGED users
       ELSE LET user == [id |-> UserIds[Cardinality(users) + 1], email |-> email,
                         is_active |-> TRUE]
            IN  /\ users' = users \cup {user}
                /\ resp' = TokenResponse("register", NoCredentials, 201, user)

Register == \E email \in EmailInputs : register(email)

login(email, password_ok) ==
    /\ UNCHANGED <<contract_clauses, next_clause_id, chat_history, users, llm_configured,
                   auth_required,
                   contract_versions, snapshot_calls>>
    /\ IF ~\E u \in users : u.email = email
       THEN resp' = AuthFailure("login", NoCredentials, 401)
       ELSE LET user == CHOOSE u \in users : u.email = email
            IN  IF ~user.is_active THEN resp' = AuthFailure("login", NoCredentials, 403)
                ELSE IF ~password_ok THEN resp' = AuthFailure("login", NoCredentials, 401)
                ELSE resp' = TokenResponse("login", NoCredentials, 200, user)

Login == \E email \in EmailInputs, password_ok \in BOOLEAN : login(email, password_ok)

\* users.is_active has no route that clears it; an operator does, in the database
DeactivateUser ==
    /\ \E u \in users :
          /\ u.is_active
          /\ users' = (users \ {u}) \cup {[u EXCEPT !.is_active = FALSE]}
          /\ resp' = [op |-> "deactivate_user", status |-> 0, user |-> u.id]
    /\ UNCHANGED <<contract_clauses, next_clause_id, chat_history, llm_configured,
                   auth_required,
                   contract_versions, snapshot_calls>>

\* a dependency that takes any decodable token, whatever its type
current_user_result_AnyType(credentials) ==
    IF ~auth_required
    THEN [op |-> "get_current_user", token |-> credentials, status |-> 200,
          tokens |-> <<>>, user |-> "MOCK_USER"]
    ELSE IF ~credentials.present THEN AuthFailure("get_current_user", credentials, 401)
    ELSE LET payload == decode_token(credentials)
         IN  IF ~payload.ok THEN AuthFailure("get_current_user", credentials, 401)
             ELSE IF payload.sub = NULL THEN AuthFailure("get_current_user", credentials, 401)
             ELSE IF UserById(payload.sub) = {}
             THEN AuthFailure("get_current_user", credentials, 401)
             ELSE LET user == CHOOSE u \in UserById(payload.sub) : TRUE
                  IN  IF ~user.is_active
                      THEN AuthFailure("get_current_user", credentials, 403)
                      ELSE [op |-> "get_current_user", token |-> credentials,
                            status |-> 200, tokens |-> <<>>, user |-> user.id]

\* what get_current_user returns or raises
current_user_result(credentials) ==
    IF ~auth_required
    THEN [op |-> "get_current_user", token |-> credentials, status |-> 200,
          tokens |-> <<>>, user |-> "MOCK_USER"]
    ELSE IF ~credentials.present THEN AuthFailure("get_current_user", credentials, 401)
    ELSE LET payload == decode_token(credentials)
         IN  IF ~payload.ok THEN AuthFailure("get_current_user", credentials, 401)
             ELSE IF payload.type # "access"
             THEN AuthFailure("get_current_user", credentials, 401)
             ELSE IF payload.sub = NULL THEN AuthFailure("get_current_user", credentials, 401)
             ELSE IF UserById(payload.sub) = {}
             THEN AuthFailure("get_current_user", credentials, 401)
             ELSE LET user == CHOOSE u \in UserById(payload.sub) : TRUE
                  IN  IF ~user.is_active
                      THEN AuthFailure("get_current_user", credentials, 403)
                      ELSE [op |-> "get_current_user", token |-> credentials,
                            status |-> 200, tokens |-> <<>>, user |-> user.id]

get_current_user(credentials) ==
    /\ resp' = current_user_result(credentials)
    /\ UNCHANGED <<contract_clauses, next_clause_id, chat_history, users, llm_configured,
                   auth_required,
                   contract_versions, snapshot_calls>>

GetCurrentUser == \E credentials \in CredentialInputs : get_current_user(credentials)

refresh_token(token) ==
    /\ UNCHANGED <<contract_clauses, next_clause_id, chat_history, users, llm_configured,
                   auth_required,
                   contract_versions, snapshot_calls>>
    /\ LET payload == decode_token(token)
       IN  IF ~payload.ok THEN resp' = AuthFailure("refresh_token", token, 401)
           ELSE IF payload.type # "refresh"
           THEN resp' = AuthFailure("refresh_token", token, 401)
           ELSE IF payload.sub = NULL THEN resp' = AuthFailure("refresh_token", token, 401)
           ELSE IF UserById(payload.sub) = {}
           THEN resp' = AuthFailure("refresh_token", token, 401)
           ELSE LET user == CHOOSE u \in UserById(payload.sub) : TRUE
                IN  IF ~user.is_active
                    THEN resp' = AuthFailure("refresh_token", token, 401)
                    ELSE resp' = TokenResponse("refresh_token", token, 200, user)

RefreshToken == \E token \in Tokens : refresh_token(token)

----------------------------------------------------------------------------
(* customization_routes.py *)

\* the pieces an LLM-written or user-written text is put together from
Fragments == {PH_A, PH_B, <<"{", "{", "a", "}", "}">>, <<"{">>}

RECURSIVE TextsUpTo(_)
TextsUpTo(n) ==
    IF n = 0 THEN {<<>>}
    ELSE LET shorter == TextsUpTo(n - 1)
         IN  shorter \cup {t \o f : t \in shorter, f \in Fragments}

\* what llm_client.generate may do for a customization prompt: raise, or return a
\* JSON object with or without the key customized_text
CustomizationLlmOutcomes ==
    {[kind |-> "error"], [kind |-> "json", has_text |-> FALSE]}
    \cup {[kind |-> "json", has_text |-> TRUE, customized_text |-> t] : t \in TextsUpTo(MaxFrags)}

\* the texts a user sends to apply-customization
ApplyTexts == {<<>>, PH_B \o <<"x">>}

\* row ids a request may name
ClauseDbIdInputs == {1}

RowById(rows, contract_id, clause_db_id) ==
    {r \in rows : r.id = clause_db_id /\ r.contract_id = contract_id}

\* clause_record.get("overridden_text") or clause_data["raw_text"]
OriginalText(clause_record, clause_data) ==
    IF clause_record.overridden_text # NULL /\ clause_record.overridden_text # <<>>
    THEN clause_record.overridden_text
    ELSE clause_data.raw_text

\* the part of customize_clause after llm_client.generate has returned or raised
customize_clause_llm(contract_id, clause_db_id, clause_record, llm) ==
    LET clause_id == clause_record.clause_id
        clause_data == get_customization_context(clause_id).clause
        original_text == OriginalText(clause_record, clause_data)
        customized_text == IF llm.has_text THEN llm.customized_text ELSE <<>>
        placeholder_check == validate_placeholders(original_text, customized_text)
        req == [op |-> "customize_clause", contract_id |-> contract_id,
                clause_db_id |-> clause_db_id, llm |-> llm]
    IN  IF llm.kind = "error"
        THEN resp' = req @@ [status |-> 500]
        ELSE IF ~placeholder_check.valid
        THEN resp' = req @@ [status |-> 422,
                             missing_placeholders |-> placeholder_check.missing_placeholders]
        ELSE resp' = req @@ [status |-> 200,
                             clause_id |-> clause_id,
                             original_text |-> original_text,
                             customized_text |-> customized_text,
                             preserved_placeholders |-> placeholder_check.preserved_placeholders,
                             all_placeholders |-> placeholder_check.original_placeholders]

customize_clause(contract_id, clause_db_id) ==
    LET found == RowById(contract_clauses, contract_id, clause_db_id)
        clause_record == CHOOSE r \in found : TRUE
        req == [op |-> "customize_clause", contract_id |-> contract_id,
                clause_db_id |-> clause_db_id, llm |-> [kind |-> "not called"]]
    IN  /\ UNCHANGED <<contract_clauses, next_clause_id, chat_history, users,
                       llm_configured, auth_required,
                   contract_versions, snapshot_calls>>
        /\ IF found = {}
           THEN resp' = req @@ [status |-> 404]
           ELSE IF ~get_customization_context_found(clause_record.clause_id)
           THEN resp' = req @@ [status |-> 404]
           ELSE IF ~llm_configured
           THEN resp' = req @@ [status |-> 503]
           ELSE \E llm \in CustomizationLlmOutcomes :
                    customize_clause_llm(contract_id, clause_db_id, clause_record, llm)

CustomizeClause ==
    \E contract_id \in ContractIdInputs, clause_db_id \in ClauseDbIdInputs :
        customize_clause(contract_id, clause_db_id)

apply_customization(contract_id, clause_db_id, customized_text) ==
    LET found == RowById(contract_clauses, contract_id, clause_db_id)
    IN  /\ UNCHANGED <<next_clause_id, chat_history, users, llm_configured, auth_required,
                   contract_versions, snapshot_calls>>
        /\ IF found = {}
           THEN /\ resp' = [op |-> "apply_customization", contract_id |-> contract_id,
                            clause_db_id |-> clause_db_id, status |-> 404]
                /\ UNCHANGED contract_clauses
           ELSE /\ contract_clauses' =
                      {IF r \in found
                       THEN [r EXCEPT !.overridden_text = customized_text, !.is_customized = TRUE]
                       ELSE r : r \in contract_clauses}
                /\ resp' = [op |-> "apply_customization", contract_id |-> contract_id,
                            clause_db_id |-> clause_db_id, status |-> 200]

ApplyCustomization ==
    \E contract_id \in ContractIdInputs, clause_db_id \in ClauseDbIdInputs,
       customized_text \in ApplyTexts :
        apply_customization(contract_id, clause_db_id, customized_text)

revert_customization(contract_id, clause_db_id) ==
    LET found == RowById(contract_clauses, contract_id, clause_db_id)
    IN  /\ UNCHANGED <<next_clause_id, chat_history, users, llm_configured, auth_required,
                   contract_versions, snapshot_calls>>
        /\ IF found = {}
           THEN /\ resp' = [op |-> "revert_customization", contract_id |-> contract_id,
                            clause_db_id |-> clause_db_id, status |-> 404]
                /\ UNCHANGED contract_clauses
           ELSE /\ contract_clauses' =
                      {IF r \in found
                       THEN [r EXCEPT !.overridden_text = NULL, !.is_customized = FALSE]
                       ELSE r : r \in contract_clauses}
                /\ resp' = [op |-> "revert_customization", contract_id |-> contract_id,
                            clause_db_id |-> clause_db_id, status |-> 200]

RevertCustomization ==
    \E contract_id \in ContractIdInputs, clause_db_id \in ClauseDbIdInputs :
        revert_customization(contract_id, clause_db_id)

----------------------------------------------------------------------------
(* version_routes.py and table contract_versions *)

\* the server's workers that may run a request at the same time
Workers == {"w1", "w2"}

\* no call in progress
IdleCall == [pc |-> "idle"]

\* the clause rows create_version_snapshot selects; the ORDER BY of the list plays
\* no part in what follows, the rows are kept as a set
SnapshotClauses(rows, contract_id) ==
    {[clause_id |-> r.clause_id, clause_type |-> r.clause_type, variant |-> r.variant,
      sequence |-> r.sequence, is_mandatory |-> r.is_mandatory, is_active |-> r.is_active,
      is_customized |-> r.is_customized, overridden_text |-> r.overridden_text] :
        r \in RowsOf(rows, contract_id)}

\* the content column: json.dumps of the dict, read back as the same dict
SnapshotContent(rows, contract_id) ==
    LET clauses == SnapshotClauses(rows, contract_id)
    IN  [clauses |-> clauses,
         metadata |-> [active_clause_count |-> Cardinality({c \in clauses : c.is_active}),
                       total_clause_count |-> Cardinality(clauses)]]

VersionNumbers(versions, contract_id) ==
    {versions[i].version_number :
        i \in {j \in DOMAIN versions : versions[j].contract_id = contract_id}}

\* SELECT COALESCE(MAX(version_number), 0) + 1, which is also what the trigger
\* increment_version_number assigns
NextVersionNumber(versions, contract_id) ==
    LET numbers == VersionNumbers(versions, contract_id)
    IN  IF numbers = {} THEN 1
        ELSE (CHOOSE n \in numbers : \A k \in numbers : k <= n) + 1

VersionRow(contract_id, version_number, content, change_summary) ==
    [contract_id |-> contract_id, version_number |-> version_number,
     content |-> content, change_summary |-> change_summary]

\* create_version_snapshot run without interruption: the table contract_versions
\* after the call (unchanged when the contract does not exist)
create_version_snapshot(versions, rows, contract_id, change_summary) ==
    IF ~ContractExists(contract_id) THEN versions
    ELSE Append(versions,
                VersionRow(contract_id, NextVersionNumber(versions, contract_id),
                           SnapshotContent(rows, contract_id), change_summary))

create_version(contract_id) ==
    /\ Len(contract_versions) + 1 <= MaxVersions
    /\ contract_versions' =
           create_version_snapshot(contract_versions, contract_clauses, contract_id,
                                   [text |-> "Manual snapshot", version |-> 0])
    /\ IF ~ContractExists(contract_id)
       THEN resp' = [op |-> "create_version", contract_id |-> contract_id, status |-> 404]
       ELSE LET version == contract_versions'[Len(contract_versions')]
            IN  resp' = [op |-> "create_version", contract_id |-> contract_id,
                         status |-> 200,
                         version_number |-> version.version_number,
                         clause_count |-> version.content.metadata.active_clause_count]
    /\ UNCHANGED <<contract_clauses, next_clause_id, chat_history, users, llm_configured,
                   auth_required, snapshot_calls>>

CreateVersion == \E contract_id \in ContractIdInputs : create_version(contract_id)

\* SELECT * FROM contract_versions WHERE contract_id = %s AND version_number = %s
TargetVersion(versions, contract_id, version_number) ==
    {versions[i] : i \in {j \in DOMAIN versions :
        /\ versions[j].contract_id = contract_id
        /\ versions[j].version_number = version_number}}

\* the three UPDATE steps of restore_version
RestoredRows(rows, contract_id, target_clauses) ==
    LET active_ids == {c.clause_id : c \in {x \in target_clauses : x.is_active}}
        customized ==
            {c \in target_clauses :
                /\ c.is_customized
                /\ c.overridden_text # NULL
                /\ c.overridden_text # <<>>}
        customized_ids == {c.clause_id : c \in customized}
        TextOf(cid) == (CHOOSE c \in customized : c.clause_id = cid).overridden_text
    IN  {IF r.contract_id # contract_id THEN r
         ELSE LET step12 == [r EXCEPT !.is_active = (r.clause_id \in active_ids)]
              IN  IF r.clause_id \in customized_ids
                  THEN [step12 EXCEPT !.overridden_text = TextOf(r.clause_id),
                                      !.is_customized = TRUE]
                  ELSE step12 : r \in rows}

\* the table contract_versions after the two create_version_snapshot calls of a
\* restore that takes no snapshot before the UPDATE statements
VersionsAfterRestore_NoSafety(versions, before, after, contract_id, version_number) ==
    create_version_snapshot(versions, after, contract_id,
        [text |-> "Restored to version", version |-> version_number])

\* the table contract_versions after the two create_version_snapshot calls of
\* restore_version: one on the rows before the UPDATE statements, one on the rows
\* after them
VersionsAfterRestore(versions, before, after, contract_id, version_number) ==
    create_version_snapshot(
        create_version_snapshot(versions, before, contract_id,
            [text |-> "Auto-snapshot before restore", version |-> version_number]),
        after, contract_id,
        [text |-> "Restored to version", version |-> version_number])

restore_version(contract_id, version_number) ==
    LET found == TargetVersion(contract_versions, contract_id, version_number)
    IN
    /\ UNCHANGED <<next_clause_id, chat_history, users, llm_configured, auth_required,
                   snapshot_calls>>
    /\ IF found = {}
       THEN /\ resp' = [op |-> "restore_version", contract_id |-> contract_id,
                        restored_version |-> version_number, status |-> 404]
            /\ UNCHANGED <<contract_clauses, contract_versions>>
       ELSE LET target == CHOOSE v \in found : TRUE
                target_clauses == target.content.clauses
                restored == RestoredRows(contract_clauses, contract_id, target_clauses)
            IN  /\ Len(contract_versions) + 2 <= MaxVersions
                /\ contract_clauses' = restored
                /\ contract_versions' =
                       VersionsAfterRestore(contract_versions, contract_clauses, restored,
                                            contract_id, version_number)
                /\ resp' = [op |-> "restore_version", contract_id |-> contract_id,
                            restored_version |-> version_number, status |-> 200,
                            clauses_activated |->
                                Cardinality({c.clause_id :
                                    c \in {x \in target_clauses : x.is_active}}),
                            customizations_restored |->
                                Cardinality({r \in RowsOf(restored, contract_id) :
                                    \E c \in target_clauses :
                                        /\ c.clause_id = r.clause_id
                                        /\ c.is_customized
                                        /\ c.overridden_text # NULL
                                        /\ c.overridden_text # <<>>})]

VersionNumberInputs == 1..MaxVersions

RestoreVersion ==
    \E contract_id \in ContractIdInputs, version_number \in VersionNumberInputs :
        restore_version(contract_id, version_number)

\* change_summary is a label the callers choose (create_version, restore_version,
\* send_for_esign); it is stored as given and read by nothing; this is its default
SnapshotSummary == [text |-> "Snapshot", version |-> 0]

\* calls of create_version_snapshot that have started and not returned
CallsInProgress == {w \in Workers : snapshot_calls[w].pc # "idle"}

\* the constraint unique_version_per_contract is never checked
UniqueViolation_NoConstraint(versions, contract_id, version_number) == FALSE

\* CONSTRAINT unique_version_per_contract UNIQUE (contract_id, version_number),
\* checked against the committed rows
UniqueViolation(versions, contract_id, version_number) ==
    TargetVersion(versions, contract_id, version_number) # {}

\* the INSERT of worker w waits while another transaction holds an uncommitted row
\* with the same (contract_id, version_number)
InsertWaits(w, contract_id, version_number) ==
    \E o \in Workers \ {w} :
        /\ snapshot_calls[o].pc = "inserted"
        /\ snapshot_calls[o].contract_id = contract_id
        /\ snapshot_calls[o].version_number = version_number

\* create_version_snapshot up to the INSERT: the contract check, the SELECT of the
\* clause rows and the SELECT of the next version number
SnapshotBegin(w, contract_id) ==
    /\ snapshot_calls[w].pc = "idle"
    /\ Len(contract_versions) + Cardinality(CallsInProgress) + 1 <= MaxVersions
    /\ IF ~ContractExists(contract_id)
       THEN /\ resp' = [op |-> "create_version_snapshot", worker |-> w,
                        contract_id |-> contract_id, status |-> "none"]
            /\ UNCHANGED snapshot_calls
       ELSE /\ snapshot_calls' =
                   [snapshot_calls EXCEPT ![w] =
                       [pc |-> "read", contract_id |-> contract_id,
                        content |-> SnapshotContent(contract_clauses, contract_id),
                        change_summary |-> SnapshotSummary,
                        version_number |->
                            NextVersionNumber(contract_versions, contract_id)]]
            /\ UNCHANGED resp
    /\ UNCHANGED <<contract_clauses, next_clause_id, chat_history, users, llm_configured,
                   auth_required, contract_versions>>

\* the INSERT statement, first part: the BEFORE INSERT trigger
\* increment_version_number replaces the version_number of the new row
SnapshotTrigger(w) ==
    /\ snapshot_calls[w].pc = "read"
    /\ snapshot_calls' =
           [snapshot_calls EXCEPT ![w] =
               [snapshot_calls[w] EXCEPT
                   !.pc = "triggered",
                   !.version_number =
                       NextVersionNumber(contract_versions, snapshot_calls[w].contract_id)]]
    /\ UNCHANGED <<contract_clauses, next_clause_id, chat_history, users, llm_configured,
                   auth_required, contract_versions, resp>>

\* the INSERT statement, second part: the row enters the unique index, or the
\* statement raises and the call ends without a row
SnapshotInsert(w) ==
    LET call == snapshot_calls[w]
    IN  /\ call.pc = "triggered"
        /\ ~InsertWaits(w, call.contract_id, call.version_number)
        /\ IF UniqueViolation(contract_versions, call.contract_id, call.version_number)
           THEN /\ snapshot_calls' = [snapshot_calls EXCEPT ![w] = IdleCall]
                /\ resp' = [op |-> "create_version_snapshot", worker |-> w,
                            contract_id |-> call.contract_id,
                            status |-> "unique_violation"]
           ELSE /\ snapshot_calls' =
                       [snapshot_calls EXCEPT ![w] = [call EXCEPT !.pc = "inserted"]]
                /\ UNCHANGED resp
        /\ UNCHANGED <<contract_clauses, next_clause_id, chat_history, users,
                       llm_configured, auth_required, contract_versions>>

\* conn.commit() and the return of the new row
SnapshotCommit(w) ==
    LET call == snapshot_calls[w]
    IN  /\ call.pc = "inserted"
        /\ contract_versions' =
               Append(contract_versions,
                      VersionRow(call.contract_id, call.version_number, call.content,
                                 call.change_summary))
        /\ snapshot_calls' = [snapshot_calls EXCEPT ![w] = IdleCall]
        /\ resp' = [op |-> "create_version_snapshot", worker |-> w,
                    contract_id |-> call.contract_id, status |-> "created",
                    version_number |-> call.version_number]
        /\ UNCHANGED <<contract_clauses, next_clause_id, chat_history, users,
                       llm_configured, auth_required>>

CreateVersionSnapshotBegin ==
    \E w \in Workers, contract_id \in ContractIdInputs : SnapshotBegin(w, contract_id)

CreateVersionSnapshotTrigger == \E w \in Workers : SnapshotTrigger(w)

CreateVersionSnapshotInsert == \E w \in Workers : SnapshotInsert(w)

CreateVersionSnapshotCommit == \E w \in Workers : SnapshotCommit(w)

----------------------------------------------------------------------------
(* GraphRAGValidator.validate_clause_ids applied to a list of ids *)

\* the ids a caller can pass: ids of Clause nodes and ids the graph does not have
ClauseIdInputs == {"CONF_STD", "TERM_MOD", "GHOST_001", "GHOST_002"}

ValidateClauseIds ==
    \E clause_ids \in SeqsUpTo(ClauseIdInputs, MaxIds) :
        /\ resp' = [op |-> "validate_clause_ids", clause_ids |-> clause_ids,
                    result |-> validate_clause_ids(clause_ids)]
        /\ UNCHANGED <<contract_clauses, next_clause_id, chat_history, users,
                       llm_configured, auth_required, contract_versions, snapshot_calls>>

----------------------------------------------------------------------------
Init ==
    /\ contract_clauses = {}
    /\ next_clause_id = 1
    /\ chat_history = <<>>
    /\ users = {}
    /\ llm_configured \in BOOLEAN
    /\ auth_required \in BOOLEAN
    /\ contract_versions = <<>>
    /\ snapshot_calls = [w \in Workers |-> IdleCall]
    /\ resp = [op |-> "none", status |-> 0]

\* the default configuration: AUTH_REQUIRED is not set, no route asks for a token
InitOpen == Init /\ ~auth_required

NextClauses ==
    \/ GenerateClauses
    \/ SwitchClauseVariant
    \/ DeleteAllClauses

SpecClauses == InitOpen /\ [][NextClauses]_vars

NextRAG ==
    \/ GenerateClauses
    \/ GetRecommendations
    \/ GetQuickRisk
    \/ GetRiskAnalysis

SpecRAG == InitOpen /\ [][NextRAG]_vars

NextChat ==
    \/ GenerateClauses
    \/ Chat
    \/ ClearChatHistory

SpecChat == InitOpen /\ [][NextChat]_vars

NextAuth ==
    \/ Register
    \/ Login
    \/ DeactivateUser
    \/ GetCurrentUser
    \/ RefreshToken

SpecAuth == Init /\ [][NextAuth]_vars

NextVersions ==
    \/ GenerateClauses
    \/ DeleteAllClauses
    \/ ApplyCustomization
    \/ RevertCustomization
    \/ CreateVersion
    \/ RestoreVersion

\* LLM_API_KEY is not set; no route of version_routes.py reads it
InitVersions == InitOpen /\ ~llm_configured

SpecVersions == InitVersions /\ [][NextVersions]_vars

NextSnapshots ==
    \/ GenerateClauses
    \/ CreateVersionSnapshotBegin
    \/ CreateVersionSnapshotTrigger
    \/ CreateVersionSnapshotInsert
    \/ CreateVersionSnapshotCommit

SpecSnapshots == InitVersions /\ [][NextSnapshots]_vars

NextValidate ==
    \/ ValidateClauseIds

SpecValidate == InitVersions /\ [][NextValidate]_vars

NextCustomize ==
    \/ GenerateClauses
    \/ ApplyCustomization
    \/ RevertCustomization
    \/ CustomizeClause

SpecCustomize == InitOpen /\ [][NextCustomize]_vars

----------------------------------------------------------------------------
(* Claims about clause customization *)

\* a {{PLACEHOLDER}} token: "{{", one or more characters of [A-Z_0-9], "}}"
IsPlaceholderToken(p) ==
    /\ Len(p) >= 5
    /\ p[1] = "{" /\ p[2] = "{"
    /\ p[Len(p) - 1] = "}" /\ p[Len(p)] = "}"
    /\ \A k \in 3..(Len(p) - 2) : p[k] \in PlaceholderChars

\* the distinct placeholder tokens that occur somewhere in t
TokensOf(t) ==
    {p \in {SubSeq(t, i, j) : i \in 1..Len(t), j \in 1..Len(t)} : IsPlaceholderToken(p)}

\* the original text of a clause row: its overridden_text if set, else the graph's
\* raw_text (an empty overridden_text read either way)
ClaimOriginals(row) ==
    IF row.overridden_text = NULL THEN {GraphClause(row.clause_id).raw_text}
    ELSE IF row.overridden_text = <<>>
    THEN {row.overridden_text, GraphClause(row.clause_id).raw_text}
    ELSE {row.overridden_text}

\* C1: whenever the LLM has answered a customization request, a placeholder token of
\* the original text that is absent from the LLM's customized_text makes the answer
\* a 422 that lists exactly the missing tokens, and a 200 answer carries the LLM's
\* text with every placeholder token of the original text in it.
C1_PlaceholdersPreserved ==
    (resp.op = "customize_clause" /\ resp.llm.kind = "json") =>
        \A row \in RowById(contract_clauses, resp.contract_id, resp.clause_db_id) :
        \A original \in ClaimOriginals(row) :
            LET customized == IF resp.llm.has_text THEN resp.llm.customized_text ELSE <<>>
                missing == TokensOf(original) \ TokensOf(customized)
            IN  /\ resp.status \in {200, 422}
                /\ missing # {} =>
                      /\ resp.status = 422
                      /\ Range(resp.missing_placeholders) = missing
                      /\ Len(resp.missing_placeholders) = Cardinality(missing)
                /\ resp.status = 200 =>
                      /\ resp.customized_text = customized
                      /\ TokensOf(original) \subseteq TokensOf(resp.customized_text)

\* C1 witness: a customization of a clause whose original text is its overridden
\* text was rejected with 422 although the LLM's text holds a placeholder token
C1_Witness ==
    /\ resp.op = "customize_clause"
    /\ resp.status = 422
    /\ resp.llm.kind = "json"
    /\ resp.llm.has_text
    /\ TokensOf(resp.llm.customized_text) # {}
    /\ \E row \in RowById(contract_clauses, resp.contract_id, resp.clause_db_id) :
          row.overridden_text # NULL /\ row.overridden_text # <<>>

----------------------------------------------------------------------------
(* Claims about the clause routes *)

\* C9: switch_clause_variant is all-or-nothing.  A successful switch leaves, among
\* the rows of the contract with the given clause_type, exactly those with
\* variant = new_variant active, and changes no other row and nothing but is_active;
\* it succeeds exactly when such a row exists.  When none exists the answer is 404
\* and the committed table is what it was before the request.
C9_SwitchAllOrNothing ==
    [][resp'.op = "switch_clause_variant" =>
        LET cid == resp'.contract_id
            ct == resp'.clause_type
            nv == resp'.new_variant
            hit == \E r \in contract_clauses :
                      r.contract_id = cid /\ r.clause_type = ct /\ r.variant = nv
        IN  /\ resp'.status \in {200, 404}
            /\ resp'.status = 200 <=> hit
            /\ resp'.status = 404 => contract_clauses' = contract_clauses
            /\ resp'.status = 200 =>
                  /\ {r.id : r \in contract_clauses'} = {r.id : r \in contract_clauses}
                  /\ \A r \in contract_clauses : \E n \in contract_clauses' :
                        /\ n.id = r.id
                        /\ n = [r EXCEPT !.is_active = n.is_active]
                        /\ IF r.contract_id = cid /\ r.clause_type = ct
                           THEN n.is_active = (r.variant = nv)
                           ELSE n.is_active = r.is_active
    ]_vars

\* C9 witness: a switch to a variant the clause type does not have was answered 404
\* while a row of that clause type is active (the first UPDATE had rows to deactivate),
\* and the other contract has rows too
C9_Witness ==
    /\ resp.op = "switch_clause_variant"
    /\ resp.status = 404
    /\ \E r \in contract_clauses :
          r.contract_id = resp.contract_id /\ r.clause_type = resp.clause_type /\ r.is_active
    /\ \E r \in contract_clauses : r.contract_id # resp.contract_id /\ r.is_active

\* C10: generate_clauses on a contract without clause rows stores one row per clause
\* the graph returns for the contract's type and jurisdiction, and a stored row is
\* active iff its variant is default_variant; on a contract that already has rows it
\* answers 400 and the table is unchanged.
C10_GenerateDefaultVariant ==
    [][resp'.op = "generate_clauses" =>
        LET cid == resp'.contract_id
            before == RowsOf(contract_clauses, cid)
            after == RowsOf(contract_clauses', cid)
            contract == ContractRow(cid)
            graph_rows == Range(fetch_clauses_from_neo4j(contract.contract_type,
                                                         contract.jurisdiction))
        IN  /\ (ContractExists(cid) /\ before # {}) =>
                  resp'.status = 400 /\ contract_clauses' = contract_clauses
            /\ resp'.status # 200 => contract_clauses' = contract_clauses
            /\ resp'.status = 200 =>
                  /\ before = {}
                  /\ contract_clauses' \ after = contract_clauses
                  /\ {[clause_id |-> r.clause_id, clause_type |-> r.clause_type,
                       variant |-> r.variant, sequence |-> r.sequence,
                       is_mandatory |-> r.is_mandatory] : r \in after} = graph_rows
                  /\ Cardinality(after) = Cardinality(graph_rows)
                  /\ \A r \in after : r.is_active <=> (r.variant = resp'.default_variant)
    ]_vars

\* C10 witness: a generation succeeded and stored both an active and an inactive row
C10_Witness ==
    /\ resp.op = "generate_clauses"
    /\ resp.status = 200
    /\ \E r \in RowsOf(contract_clauses, resp.contract_id) : r.is_active
    /\ \E r \in RowsOf(contract_clauses, resp.contract_id) : ~r.is_active

----------------------------------------------------------------------------
(* Graph RAG: recommendations and risk analysis *)

\* the recommendation context retrieved for a contract in the current state
RecommendationContextOf(contract_id) ==
    get_recommendation_context(ContractRow(contract_id).contract_type,
                               ContractRow(contract_id).jurisdiction,
                               get_active_clause_ids(contract_id))

\* the risk context retrieved for a contract in the current state
RiskContextOf(contract_id) ==
    get_risk_context(ContractRow(contract_id).contract_type,
                     ContractRow(contract_id).jurisdiction,
                     get_active_clause_ids(contract_id))

LlmAnswered(op) == resp.op = op /\ resp.status = 200 /\ resp.llm.kind = "json"

\* C2: on the LLM path of get_recommendations the returned list is the LLM's list
\* restricted, in order, to the recommendations whose recommended_clause_id is an
\* ALTERNATIVE_TO target of the retrieved context or whose clause_type is one of its
\* missing REQUIRES types; total_recommendations is the length of the returned list.
C2_RecommendationsGrounded ==
    LlmAnswered("get_recommendations") =>
        LET ctx == RecommendationContextOf(resp.contract_id)
            alt_ids == {ctx.alternatives[i].recommended_clause_id :
                            i \in DOMAIN ctx.alternatives}
            req_types == {ctx.requires[i].required_clause_type : i \in DOMAIN ctx.requires}
            Grounded(r) == r.recommended_clause_id \in alt_ids \/ r.clause_type \in req_types
        IN  /\ \A i \in DOMAIN resp.recommendations : Grounded(resp.recommendations[i])
            /\ resp.recommendations = SelectSeq(resp.llm.recommendations, Grounded)
            /\ resp.total_recommendations = Len(resp.recommendations)

\* an LLM answer of two recommendations of which one is kept and one is filtered out
C2_Witness ==
    /\ LlmAnswered("get_recommendations")
    /\ Len(resp.llm.recommendations) = 2
    /\ Len(resp.recommendations) = 1
    /\ resp.grounding_validation.filtered_hallucinations = 1

\* C3: no recommendation returned on the LLM path of get_recommendations carries a
\* non-empty recommended_clause_id that is not the id of a Clause node of the graph.
C3_RecommendedIdsExist ==
    LlmAnswered("get_recommendations") =>
        \A i \in DOMAIN resp.recommendations :
            resp.recommendations[i].recommended_clause_id # NULL
                => resp.recommendations[i].recommended_clause_id \in GraphClauseIds

\* C4: every entry of the clause_risks list returned by get_risk_analysis on the LLM
\* path names a clause of the graph and carries the graph's risk_level of that clause.
C4_RiskLevelsFromGraph ==
    LlmAnswered("get_risk_analysis") =>
        \A i \in DOMAIN resp.clause_risks :
            /\ resp.clause_risks[i].clause_id \in GraphClauseIds
            /\ resp.clause_risks[i].risk_level
                   = GraphClause(resp.clause_risks[i].clause_id).risk_level

\* C5: whatever the LLM did (answered, failed, not configured), the overall score
\* and label of get_risk_analysis are those computed from the clause risks and
\* conflicts of the retrieved risk context, and so are those of get_quick_risk.
C5_OverallScoreFromGraph ==
    (resp.op \in {"get_risk_analysis", "get_quick_risk"} /\ resp.status = 200) =>
        LET ctx == RiskContextOf(resp.contract_id)
            score == _compute_risk_score(ctx.clause_risks, ctx.conflicts)
        IN  /\ resp.overall_risk_score = score
            /\ resp.overall_risk_label = _get_risk_label(score)

\* the LLM answered with clause risks and a score of its own (1.2, Low) for a
\* contract whose graph score is 5.7
C5_Witness ==
    /\ LlmAnswered("get_risk_analysis")
    /\ Len(resp.clause_risks) > 0
    /\ resp.overall_risk_score = 57
    /\ resp.overall_risk_label = "High"

\* C6: when the LLM call raised, get_recommendations and get_risk_analysis answer 200;
\* the recommendations are one per alternative followed by one per missing
\* requirement of the graph context, and the risk response lists the graph's clause
\* risks, its conflicts, and its missing dependencies followed by its gaps.
C6_FallbackToGraph ==
    /\ (resp.op = "get_recommendations" /\ resp.llm.kind = "error") =>
            LET ctx == RecommendationContextOf(resp.contract_id)
                na == Len(ctx.alternatives)
                recs == resp.recommendations
            IN  /\ resp.status = 200
                /\ Len(recs) = na + Len(ctx.requires)
                /\ resp.total_recommendations = Len(recs)
                /\ \A i \in DOMAIN ctx.alternatives :
                       /\ recs[i].type = "variant_upgrade"
                       /\ recs[i].clause_type = ctx.alternatives[i].clause_type
                       /\ recs[i].current_clause_id = ctx.alternatives[i].current_clause_id
                       /\ recs[i].recommended_clause_id
                              = ctx.alternatives[i].recommended_clause_id
                /\ \A j \in DOMAIN ctx.requires :
                       /\ recs[na + j].type = "missing_clause"
                       /\ recs[na + j].clause_type = ctx.requires[j].required_clause_type
                       /\ recs[na + j].recommended_clause_id = NULL
    /\ (resp.op = "get_risk_analysis" /\ resp.llm.kind = "error") =>
            LET ctx == RiskContextOf(resp.contract_id)
                nd == Len(ctx.missing_dependencies)
            IN  /\ resp.status = 200
                /\ Len(resp.clause_risks) = Len(ctx.clause_risks)
                /\ \A i \in DOMAIN ctx.clause_risks :
                       /\ resp.clause_risks[i].clause_id = ctx.clause_risks[i].clause_id
                       /\ resp.clause_risks[i].risk_level = ctx.clause_risks[i].risk_level
                /\ Len(resp.conflicts) = Len(ctx.conflicts)
                /\ \A i \in DOMAIN ctx.conflicts :
                       /\ resp.conflicts[i].clause_a = ctx.conflicts[i].clause_a_id
                       /\ resp.conflicts[i].clause_b = ctx.conflicts[i].clause_b_id
                       /\ resp.conflicts[i].severity = ctx.conflicts[i].severity
                /\ Len(resp.gaps) = nd + Len(ctx.gaps)
                /\ \A i \in DOMAIN ctx.missing_dependencies :
                       resp.gaps[i].missing_clause_type = ctx.missing_dependencies[i].missing_type
                /\ \A j \in DOMAIN ctx.gaps :
                       resp.gaps[nd + j].missing_clause_type = ctx.gaps[j].clause_type_id

\* the LLM raised for a contract with two alternatives and one missing requirement
C6_Witness ==
    /\ resp.op = "get_recommendations"
    /\ resp.llm.kind = "error"
    /\ Len(resp.recommendations) = 3
    /\ resp.recommendations[3].type = "missing_clause"

----------------------------------------------------------------------------
(* Chat *)

\* C7: after chat got an answer from the LLM, the citations stored with the assistant
\* message are the LLM's citations, in its order, whose clause_id is an active clause
\* of the contract that the graph has; a 200 response returns the same list and
\* reports the number of dropped citations as invalid_citations_filtered.
C7_CitationsFiltered ==
    (resp.op = "chat" /\ resp.llm.kind = "json") =>
        LET available == get_active_clause_ids(resp.contract_id) \cap GraphClauseIds
            kept == SelectSeq(resp.llm.citations, LAMBDA c : c.clause_id \in available)
            last == chat_history[Len(chat_history)]
        IN  /\ chat_history # <<>>
            /\ last.role = "assistant"
            /\ last.contract_id = resp.contract_id
            /\ last.citations = kept
            /\ resp.status = 200 =>
                   /\ resp.citations = kept
                   /\ resp.grounding_validation.invalid_citations_filtered
                          = Len(resp.llm.citations) - Len(kept)

\* the LLM cited an active clause and a clause that does not exist; one citation is
\* returned and stored, one is dropped
C7_Witness ==
    /\ resp.op = "chat"
    /\ resp.status = 200
    /\ Len(resp.llm.citations) = 2
    /\ Len(resp.citations) = 1
    /\ resp.grounding_validation.invalid_citations_filtered = 1
    /\ chat_history[Len(chat_history)].citations = resp.citations

----------------------------------------------------------------------------
(* Authentication *)

\* the token of the last request verifies: signed with SECRET_KEY and not expired
ValidlySigned(token) == token.present /\ token.signed /\ ~token.expired

\* C8: with AUTH_REQUIRED true get_current_user answers 401 to every validly signed
\* token whose type is not "access"; refresh answers 401 to every validly signed
\* token whose type is not "refresh"; a refresh naming a missing or deactivated user
\* is not answered with tokens.
C8_TokenTypesNotInterchangeable ==
    /\ (/\ auth_required
        /\ resp.op = "get_current_user"
        /\ ValidlySigned(resp.token)
        /\ resp.token.type # "access") => resp.status = 401 /\ resp.user = NULL
    /\ (/\ resp.op = "refresh_token"
        /\ ValidlySigned(resp.token)
        /\ resp.token.type # "refresh") => resp.status = 401 /\ resp.tokens = <<>>
    /\ (/\ resp.op = "refresh_token"
        /\ \A u \in users : u.id = resp.token.sub => ~u.is_active)
            => resp.status = 401 /\ resp.tokens = <<>>

\* a refresh token of a registered, active user was presented as a bearer token
\* and refused
C8_Witness ==
    /\ auth_required
    /\ resp.op = "get_current_user"
    /\ ValidlySigned(resp.token)
    /\ resp.token.type = "refresh"
    /\ \E u \in users : u.id = resp.token.sub /\ u.is_active
    /\ resp.status = 401

----------------------------------------------------------------------------
(* Claims about version history *)

\* C11: after restore_version(v) succeeds, every clause row of the contract has
\* is_active, is_customized and overridden_text equal to the values recorded for
\* its clause_id in the snapshot of version v
C11_RestoreReturnsSnapshotState ==
    (resp.op = "restore_version" /\ resp.status = 200) =>
        \A v \in TargetVersion(contract_versions, resp.contract_id, resp.restored_version) :
            \A r \in RowsOf(contract_clauses, resp.contract_id) :
                \A c \in v.content.clauses :
                    c.clause_id = r.clause_id =>
                        /\ r.is_active = c.is_active
                        /\ r.is_customized = c.is_customized
                        /\ r.overridden_text = c.overridden_text


\* C12: a successful restore_version adds exactly two versions to the history and
\* leaves every version stored before it as it was; the first added version
\* records the clause rows of the contract as they were before the restore, the
\* second records them as they are after it
C12_RestoreAddsTwoVersions ==
    [][(resp'.op = "restore_version" /\ resp'.status = 200) =>
          LET n == Len(contract_versions)
              cid == resp'.contract_id
          IN  /\ Len(contract_versions') = n + 2
              /\ SubSeq(contract_versions', 1, n) = contract_versions
              /\ contract_versions'[n + 1].contract_id = cid
              /\ contract_versions'[n + 1].content =
                     SnapshotContent(contract_clauses, cid)
              /\ contract_versions'[n + 2].contract_id = cid
              /\ contract_versions'[n + 2].content =
                     SnapshotContent(contract_clauses', cid)]_vars

\* a restore has succeeded and changed the clause rows: the version taken before
\* it and the version taken after it record different contents
C12_Witness ==
    /\ resp.op = "restore_version"
    /\ resp.status = 200
    /\ Len(contract_versions) >= 3
    /\ LET n == Len(contract_versions)
       IN  /\ contract_versions[n - 1].content # contract_versions[n].content
           /\ contract_versions[n].content.clauses =
                  SnapshotClauses(contract_clauses, resp.contract_id)

\* C13: however the calls of create_version_snapshot interleave, the stored
\* versions of a contract carry the numbers 1, 2, 3, ... in the order they were
\* stored: no two share a version_number and each new one is the previous
\* maximum plus one
C13_OneNumberPerVersion ==
    \A i \in DOMAIN contract_versions :
        contract_versions[i].version_number =
            Cardinality({j \in 1..i :
                contract_versions[j].contract_id = contract_versions[i].contract_id})

\* two calls for the same contract overlapped: one stored its version, the other
\* was given the same number and its INSERT was refused
C13_Witness ==
    /\ resp.op = "create_version_snapshot"
    /\ resp.status = "unique_violation"
    /\ TargetVersion(contract_versions, resp.contract_id, 1) # {}

----------------------------------------------------------------------------
(* Claims about the validation of clause ids *)

\* C14: the result of validate_clause_ids agrees with graph membership: valid is
\* true exactly when every given id is a Clause of the graph, valid_ids and
\* invalid_ids partition the given ids, validation_rate is the fraction of the
\* given ids that exist (1.0 for the empty list), and validation_rate is 1.0
\* exactly when valid is true
C14_ValidationAgreesWithGraph ==
    resp.op = "validate_clause_ids" =>
        LET ids == resp.clause_ids
            result == resp.result
            given == {ids[i] : i \in DOMAIN ids}
            valid_ids == {result.valid_ids[i] : i \in DOMAIN result.valid_ids}
            invalid_ids == {result.invalid_ids[i] : i \in DOMAIN result.invalid_ids}
            existing == Cardinality({i \in DOMAIN ids : ids[i] \in GraphClauseIds})
        IN  /\ result.valid <=> (\A i \in DOMAIN ids : ids[i] \in GraphClauseIds)
            /\ valid_ids \cup invalid_ids = given
            /\ valid_ids \cap invalid_ids = {}
            /\ valid_ids = given \cap GraphClauseIds
            /\ "validation_rate" \in DOMAIN result
            /\ LET rate == result.validation_rate
               IN  /\ rate[2] # 0
                   /\ IF ids = <<>> THEN rate[1] = rate[2]
                      ELSE rate[1] * Len(ids) = existing * rate[2]
                   /\ (rate[1] = rate[2]) <=> result.valid

====
